---- MODULE Spec2Model ----
(***************************************************************************)
(* Model of the multicast stream scanner (iptvscanner.py).                 *)
(*                                                                         *)
(* Two specifications share the variables below.                           *)
(*   SpecV : one call of validate_stream_strict against every behaviour of *)
(*           the gateway (the "net" script) within the bounds.             *)
(*   Spec  : scan_range / _scan_targets: enumeration, the thread pool, the *)
(*           as_completed loop, the final sort, console report and save.   *)
(*                                                                         *)
(* Abstractions.  Wall-clock values (response_time) and the diagnostic     *)
(* headers (content_type, server) are left out of the result dictionaries: *)
(* no branch of the code reads them.  A dotted address string is the tuple *)
(* of its four dot-separated fields, each a sequence of decimal digits; a  *)
(* URL is the tuple <<base_url, address string, port>>.  Message texts are *)
(* given in English.                                                       *)
(***************************************************************************)
EXTENDS Integers, Sequences, FiniteSets, TLC

VARIABLES
    \* ---- SpecV: one validate_stream_strict call
    v_pc,               \* "call" | "returned"
    v_net,              \* what the gateway does for this call
    v_out,              \* the call's outcome
    \* ---- Spec: one scan
    pc,                 \* position of the main thread
    args,               \* [start, end, ports, max_workers]
    targets,            \* scan_range: list of (ip_addr, port)
    submitted,          \* number of targets handed to executor.submit
    futures,            \* per target index: state of its future
    runs,               \* per target index: calls of validate_stream_strict
    completed,          \* _scan_targets: completed
    available_streams,  \* _scan_targets: available_streams
    progress,           \* progress lines printed: <<completed, total, found>>
    returned,           \* value bound to `results` in main
    console,            \* what the final report printed
    playlist            \* lines of the output file; <<>> while not written

vvars == <<v_pc, v_net, v_out>>
svars == <<pc, args, targets, submitted, futures, runs, completed,
           available_streams, progress, returned, console, playlist>>
vars  == <<vvars, svars>>

(***************************************************************************)
(* Bounds of the model.                                                    *)
(***************************************************************************)
MaxChunks  == 4     \* chunks a gateway script offers before the body ends
MaxSpan    == 2     \* end - start is at most this
MaxTargets == 3     \* scans of at most this many targets
MaxWorkers == 2     \* max_workers ranges over 1..MaxWorkers
MaxSortLen == 3     \* lists of at most this many results are sorted
MaxPlaylistLen == 3 \* playlists of at most this many results are written

(***************************************************************************)
(* Program constants.                                                      *)
(***************************************************************************)
HTTP_OK          == 200      \* response.status_code != 200
CHUNK_SIZE       == 4096     \* iter_content(chunk_size=4096)
DATA_THRESHOLD   == 100      \* data_size > 100
MAX_CHUNK_COUNT  == 3        \* chunk_count >= 3
MAX_DATA_SIZE    == 32768    \* data_size >= 32768

BoundedSeq(S, n) == UNION {[1..k -> S] : k \in 0..n}

RECURSIVE SumSeq(_)
SumSeq(s) == IF s = <<>> THEN 0 ELSE Head(s) + SumSeq(Tail(s))

(***************************************************************************)
(* Text conversions: str(int) and int(str) on decimal digit sequences.     *)
(***************************************************************************)
RECURSIVE IntToStr(_)
IntToStr(n) == IF n < 10 THEN <<n>> ELSE Append(IntToStr(n \div 10), n % 10)

RECURSIVE StrToInt(_)
StrToInt(s) ==
    IF Len(s) = 0 THEN 0
    ELSE 10 * StrToInt(SubSeq(s, 1, Len(s) - 1)) + s[Len(s)]

\* int(ipaddress.IPv4Address(...)) is a 32-bit unsigned value; it is kept
\* as its four base-256 digits <<a, b, c, d>>, most significant first.
IpLess(x, y) ==
    \E i \in 1..4 : x[i] < y[i] /\ \A j \in 1..(i - 1) : x[j] = y[j]

IpLeq(x, y) == x = y \/ IpLess(x, y)

\* ip_int + 1 (with carry); not used above 255.255.255.255
IpSucc(x) ==
    IF x[4] < 255 THEN <<x[1], x[2], x[3], x[4] + 1>>
    ELSE IF x[3] < 255 THEN <<x[1], x[2], x[3] + 1, 0>>
    ELSE IF x[2] < 255 THEN <<x[1], x[2] + 1, 0, 0>>
    ELSE <<x[1] + 1, 0, 0, 0>>

\* str(ipaddress.IPv4Address(ip_int)), already split at the dots
IPv4Str(ip_int) ==
    << IntToStr(ip_int[1]), IntToStr(ip_int[2]),
       IntToStr(ip_int[3]), IntToStr(ip_int[4]) >>

(***************************************************************************)
(* The gateway as seen by one call: what session.get does and, when it     *)
(* yields a response, the status code and what iterating the body yields.  *)
(***************************************************************************)
ChunkSizes  == {0, 1, 40, 60, CHUNK_SIZE}
StatusCodes == {HTTP_OK, 204, 404, 500}
GetOutcomes == {"response", "connect_timeout", "refused", "read_timeout", "other"}
BodyEnds    == {"eof", "read_timeout", "protocol"}

Net(pre, get, code, chunks, end) ==
    [pre_raises |-> pre, get |-> get, status_code |-> code,
     chunks |-> chunks, end |-> end]

NetScripts(sizes, n) ==
    {Net(TRUE, "response", HTTP_OK, <<>>, "eof")}
    \cup {Net(FALSE, g, HTTP_OK, <<>>, "eof") : g \in GetOutcomes \ {"response"}}
    \cup {Net(FALSE, "response", c, <<CHUNK_SIZE>>, "eof") : c \in StatusCodes \ {HTTP_OK}}
    \cup {Net(FALSE, "response", HTTP_OK, ch, e) : ch \in BoundedSeq(sizes, n), e \in BodyEnds}

Scripts == NetScripts(ChunkSizes, MaxChunks)

(***************************************************************************)
(* Exceptions: a class name and a message; the classes an exception is an  *)
(* instance of (requests.exceptions hierarchy).                            *)
(***************************************************************************)
Exc(cls, msg) == [cls |-> cls, msg |-> msg]
NoExc == Exc("None", "")

ExcClasses(cls) ==
    CASE cls = "ConnectTimeout" ->
            {"ConnectTimeout", "ConnectionError", "Timeout", "RequestException", "Exception"}
      [] cls = "ConnectionError" -> {"ConnectionError", "RequestException", "Exception"}
      [] cls = "ReadTimeout" -> {"ReadTimeout", "Timeout", "RequestException", "Exception"}
      [] cls = "ChunkedEncodingError" ->
            {"ChunkedEncodingError", "RequestException", "Exception"}
      [] OTHER -> {cls, "Exception"}

\* self.session.get(stream_url, timeout=..., stream=True) failing
RaisedByGet(get) ==
    CASE get = "connect_timeout" -> Exc("ConnectTimeout", "connect timed out")
      [] get = "refused"         -> Exc("ConnectionError", "connection refused")
      [] get = "read_timeout"    -> Exc("ReadTimeout", "read timed out")
      [] OTHER                   -> Exc("RequestException", "request failed")

\* response.iter_content(...) failing while the body is iterated: the
\* library re-raises a read timeout of the body as ConnectionError and a
\* protocol error as ChunkedEncodingError.
RaisedByIterContent(end) ==
    CASE end = "read_timeout" -> Exc("ConnectionError", "read timed out")
      [] OTHER                -> Exc("ChunkedEncodingError", "connection broken")

(***************************************************************************)
(* validate_stream_strict.                                                 *)
(***************************************************************************)
NoResult == [none |-> TRUE]

\* The body-read loop (for chunk in response.iter_content(...)): item k of
\* the body is requested with data_size bytes in chunk_count chunks so far.
\* reads counts the items requested from the iterator, the last one included.
RECURSIVE ReadLoop(_, _, _, _)
ReadLoop_BudgetFirst(net, k, data_size, chunk_count) ==
    IF k > Len(net.chunks)
    THEN IF net.end = "eof"
         THEN [exc |-> NoExc, data_valid |-> FALSE, data_size |-> data_size,
               chunk_count |-> chunk_count, reads |-> k, stop |-> "eof"]
         ELSE [exc |-> RaisedByIterContent(net.end), data_valid |-> FALSE,
               data_size |-> data_size, chunk_count |-> chunk_count,
               reads |-> k, stop |-> "exception"]
    ELSE LET chunk == net.chunks[k] IN
         IF chunk = 0
         THEN ReadLoop(net, k + 1, data_size, chunk_count)
         ELSE LET ds == data_size + chunk
                  cc == chunk_count + 1
              IN  IF cc >= MAX_CHUNK_COUNT \/ ds >= MAX_DATA_SIZE
                  THEN [exc |-> NoExc, data_valid |-> FALSE, data_size |-> ds,
                        chunk_count |-> cc, reads |-> k,
                        stop |-> IF cc >= MAX_CHUNK_COUNT THEN "chunks" ELSE "bytes"]
                  ELSE IF ds > DATA_THRESHOLD
                  THEN [exc |-> NoExc, data_valid |-> TRUE, data_size |-> ds,
                        chunk_count |-> cc, reads |-> k, stop |-> "threshold"]
                  ELSE ReadLoop(net, k + 1, ds, cc)

ReadLoop_NoChunkLimit(net, k, data_size, chunk_count) ==
    IF k > Len(net.chunks)
    THEN IF net.end = "eof"
         THEN [exc |-> NoExc, data_valid |-> FALSE, data_size |-> data_size,
               chunk_count |-> chunk_count, reads |-> k, stop |-> "eof"]
         ELSE [exc |-> RaisedByIterContent(net.end), data_valid |-> FALSE,
               data_size |-> data_size, chunk_count |-> chunk_count,
               reads |-> k, stop |-> "exception"]
    ELSE LET chunk == net.chunks[k] IN
         IF chunk = 0
         THEN ReadLoop(net, k + 1, data_size, chunk_count)
         ELSE LET ds == data_size + chunk
                  cc == chunk_count + 1
              IN  IF ds > DATA_THRESHOLD
                  THEN [exc |-> NoExc, data_valid |-> TRUE, data_size |-> ds,
                        chunk_count |-> cc, reads |-> k, stop |-> "threshold"]
                  ELSE IF ds >= MAX_DATA_SIZE
                  THEN [exc |-> NoExc, data_valid |-> FALSE, data_size |-> ds,
                        chunk_count |-> cc, reads |-> k, stop |-> "bytes"]
                  ELSE ReadLoop(net, k + 1, ds, cc)

ReadLoop_LateThreshold(net, k, data_size, chunk_count) ==
    IF k > Len(net.chunks)
    THEN IF net.end = "eof"
         THEN [exc |-> NoExc, data_valid |-> data_size > DATA_THRESHOLD,
               data_size |-> data_size, chunk_count |-> chunk_count,
               reads |-> k, stop |-> "eof"]
         ELSE [exc |-> RaisedByIterContent(net.end), data_valid |-> FALSE,
               data_size |-> data_size, chunk_count |-> chunk_count,
               reads |-> k, stop |-> "exception"]
    ELSE LET chunk == net.chunks[k] IN
         IF chunk = 0
         THEN ReadLoop(net, k + 1, data_size, chunk_count)
         ELSE LET ds == data_size + chunk
                  cc == chunk_count + 1
              IN  IF cc >= MAX_CHUNK_COUNT \/ ds >= MAX_DATA_SIZE
                  THEN [exc |-> NoExc, data_valid |-> ds > DATA_THRESHOLD,
                        data_size |-> ds, chunk_count |-> cc, reads |-> k,
                        stop |-> IF cc >= MAX_CHUNK_COUNT THEN "chunks" ELSE "bytes"]
                  ELSE ReadLoop(net, k + 1, ds, cc)

ReadLoop(net, k, data_size, chunk_count) ==
    IF k > Len(net.chunks)
    THEN IF net.end = "eof"
         THEN [exc |-> NoExc, data_valid |-> FALSE, data_size |-> data_size,
               chunk_count |-> chunk_count, reads |-> k, stop |-> "eof"]
         ELSE [exc |-> RaisedByIterContent(net.end), data_valid |-> FALSE,
               data_size |-> data_size, chunk_count |-> chunk_count,
               reads |-> k, stop |-> "exception"]
    ELSE LET chunk == net.chunks[k] IN
         IF chunk = 0
         THEN ReadLoop(net, k + 1, data_size, chunk_count)
         ELSE LET ds == data_size + chunk
                  cc == chunk_count + 1
              IN  IF ds > DATA_THRESHOLD
                  THEN [exc |-> NoExc, data_valid |-> TRUE, data_size |-> ds,
                        chunk_count |-> cc, reads |-> k, stop |-> "threshold"]
                  ELSE IF cc >= MAX_CHUNK_COUNT \/ ds >= MAX_DATA_SIZE
                  THEN [exc |-> NoExc, data_valid |-> FALSE, data_size |-> ds,
                        chunk_count |-> cc, reads |-> k,
                        stop |-> IF cc >= MAX_CHUNK_COUNT THEN "chunks" ELSE "bytes"]
                  ELSE ReadLoop(net, k + 1, ds, cc)

\* The dictionary returned for a non-200 response.
InvalidResult(multicast_addr, port, stream_url, status_code) ==
    [multicast_addr |-> multicast_addr, port |-> port, url |-> stream_url,
     status |-> "invalid", error |-> <<"HTTP ", status_code>>]

\* "if data_valid and data_size > 0: ... else: ..." after the loop.
Classify_AnyData(multicast_addr, port, stream_url, r) ==
    IF r.data_valid \/ r.data_size > 0
    THEN [multicast_addr |-> multicast_addr, port |-> port, url |-> stream_url,
          status |-> "available", data_received |-> r.data_size,
          chunks_received |-> r.chunk_count]
    ELSE [multicast_addr |-> multicast_addr, port |-> port, url |-> stream_url,
          status |-> "no_data",
          error |-> <<"no valid data, only received ", r.data_size, " bytes">>,
          data_received |-> r.data_size]

Classify_NoErrorText(multicast_addr, port, stream_url, r) ==
    IF r.data_valid /\ r.data_size > 0
    THEN [multicast_addr |-> multicast_addr, port |-> port, url |-> stream_url,
          status |-> "available", data_received |-> r.data_size,
          chunks_received |-> r.chunk_count]
    ELSE [multicast_addr |-> multicast_addr, port |-> port, url |-> stream_url,
          status |-> "no_data", data_received |-> r.data_size]

Classify(multicast_addr, port, stream_url, r) ==
    IF r.data_valid /\ r.data_size > 0
    THEN [multicast_addr |-> multicast_addr, port |-> port, url |-> stream_url,
          status |-> "available", data_received |-> r.data_size,
          chunks_received |-> r.chunk_count]
    ELSE [multicast_addr |-> multicast_addr, port |-> port, url |-> stream_url,
          status |-> "no_data",
          error |-> <<"no valid data, only received ", r.data_size, " bytes">>,
          data_received |-> r.data_size]

\* The body of the try statement: the value returned from inside it, or the
\* exception that leaves it.
TryBody_ErrorsOnly(net, multicast_addr, port, stream_url) ==
    IF net.get # "response"
    THEN [exc |-> RaisedByGet(net.get), result |-> NoResult,
          got_response |-> FALSE, closed |-> FALSE, reads |-> 0, stop |-> "none"]
    ELSE IF net.status_code >= 400
    THEN [exc |-> NoExc,
          result |-> InvalidResult(multicast_addr, port, stream_url, net.status_code),
          got_response |-> TRUE, closed |-> TRUE, reads |-> 0, stop |-> "none"]
    ELSE LET r == ReadLoop(net, 1, 0, 0) IN
         IF r.exc # NoExc
         THEN [exc |-> r.exc, result |-> NoResult,
               got_response |-> TRUE, closed |-> FALSE, reads |-> r.reads,
               stop |-> r.stop]
         ELSE [exc |-> NoExc,
               result |-> Classify(multicast_addr, port, stream_url, r),
               got_response |-> TRUE, closed |-> TRUE, reads |-> r.reads,
               stop |-> r.stop]

TryBody(net, multicast_addr, port, stream_url) ==
    IF net.get # "response"
    THEN [exc |-> RaisedByGet(net.get), result |-> NoResult,
          got_response |-> FALSE, closed |-> FALSE, reads |-> 0, stop |-> "none"]
    ELSE IF net.status_code # HTTP_OK
    THEN [exc |-> NoExc,
          result |-> InvalidResult(multicast_addr, port, stream_url, net.status_code),
          got_response |-> TRUE, closed |-> TRUE, reads |-> 0, stop |-> "none"]
    ELSE LET r == ReadLoop(net, 1, 0, 0) IN
         IF r.exc # NoExc
         THEN [exc |-> r.exc, result |-> NoResult,
               got_response |-> TRUE, closed |-> FALSE, reads |-> r.reads,
               stop |-> r.stop]
         ELSE [exc |-> NoExc,
               result |-> Classify(multicast_addr, port, stream_url, r),
               got_response |-> TRUE, closed |-> TRUE, reads |-> r.reads,
               stop |-> r.stop]

FailResult(multicast_addr, port, stream_url, status, error) ==
    [multicast_addr |-> multicast_addr, port |-> port, url |-> stream_url,
     status |-> status, error |-> error]

\* The except clauses, tried in order; the first whose class the exception
\* is an instance of handles it.  handled = FALSE: the exception leaves the
\* function.
ExceptClauses_NoCatchAll(e, multicast_addr, port, stream_url) ==
    IF "ConnectTimeout" \in ExcClasses(e.cls)
    THEN [handled |-> TRUE,
          result |-> FailResult(multicast_addr, port, stream_url,
                                "timeout", "connect timeout")]
    ELSE IF "ConnectionError" \in ExcClasses(e.cls)
    THEN [handled |-> TRUE,
          result |-> FailResult(multicast_addr, port, stream_url,
                                "connection_refused", "connection refused")]
    ELSE IF "ReadTimeout" \in ExcClasses(e.cls)
    THEN [handled |-> TRUE,
          result |-> FailResult(multicast_addr, port, stream_url,
                                "read_timeout", "read timeout")]
    ELSE [handled |-> FALSE, result |-> NoResult]

ExceptClauses_Unknown(e, multicast_addr, port, stream_url) ==
    IF "ConnectTimeout" \in ExcClasses(e.cls)
    THEN [handled |-> TRUE,
          result |-> FailResult(multicast_addr, port, stream_url,
                                "timeout", "connect timeout")]
    ELSE IF "ConnectionError" \in ExcClasses(e.cls)
    THEN [handled |-> TRUE,
          result |-> FailResult(multicast_addr, port, stream_url,
                                "connection_refused", "connection refused")]
    ELSE IF "ReadTimeout" \in ExcClasses(e.cls)
    THEN [handled |-> TRUE,
          result |-> FailResult(multicast_addr, port, stream_url,
                                "read_timeout", "read timeout")]
    ELSE [handled |-> TRUE,
          result |-> FailResult(multicast_addr, port, stream_url,
                                "unknown", e.msg)]

ExceptClauses(e, multicast_addr, port, stream_url) ==
    IF "ConnectTimeout" \in ExcClasses(e.cls)
    THEN [handled |-> TRUE,
          result |-> FailResult(multicast_addr, port, stream_url,
                                "timeout", "connect timeout")]
    ELSE IF "ConnectionError" \in ExcClasses(e.cls)
    THEN [handled |-> TRUE,
          result |-> FailResult(multicast_addr, port, stream_url,
                                "connection_refused", "connection refused")]
    ELSE IF "ReadTimeout" \in ExcClasses(e.cls)
    THEN [handled |-> TRUE,
          result |-> FailResult(multicast_addr, port, stream_url,
                                "read_timeout", "read timeout")]
    ELSE [handled |-> TRUE,
          result |-> FailResult(multicast_addr, port, stream_url,
                                "error", e.msg)]

\* One call.  The f-string and the print before the try statement are not
\* covered by it: an exception there (net.pre_raises) leaves the function.
validate_stream_strict(base_url, multicast_addr, port, net) ==
    LET stream_url == <<base_url, multicast_addr, port>> IN
    IF net.pre_raises
    THEN [raised |-> TRUE, exc |-> Exc("OSError", "console write failed"),
          result |-> NoResult, got_response |-> FALSE, closed |-> FALSE,
          reads |-> 0, stop |-> "none"]
    ELSE LET t == TryBody(net, multicast_addr, port, stream_url) IN
         IF t.exc = NoExc
         THEN [raised |-> FALSE, exc |-> NoExc, result |-> t.result,
               got_response |-> t.got_response, closed |-> t.closed,
               reads |-> t.reads, stop |-> t.stop]
         ELSE LET h == ExceptClauses(t.exc, multicast_addr, port, stream_url) IN
              [raised |-> ~h.handled,
               exc |-> IF h.handled THEN NoExc ELSE t.exc,
               result |-> h.result,
               got_response |-> t.got_response, closed |-> t.closed,
               reads |-> t.reads, stop |-> t.stop]

(***************************************************************************)
(* SpecV: one call of validate_stream_strict.                              *)
(***************************************************************************)
\* MulticastStreamValidator.__init__: base_url.rstrip('/') + '/'
base_url == "http://192.168.5.2:4022/rtp/"

V_Addr == IPv4Str(<<239, 0, 0, 1>>)
V_Port == 5140
NoOutcome == [raised |-> FALSE, exc |-> NoExc, result |-> NoResult,
              got_response |-> FALSE, closed |-> FALSE, reads |-> 0,
              stop |-> "none"]

\* main: `results` before scan_range has returned
NotReturned == [bound |-> FALSE, value |-> <<>>]

ScanIdle ==
    /\ pc = "idle"
    /\ args = [start |-> <<0, 0, 0, 0>>, end |-> <<0, 0, 0, 0>>, ports |-> <<>>,
               max_workers |-> 1]
    /\ targets = <<>>
    /\ submitted = 0
    /\ futures = <<>>
    /\ runs = <<>>
    /\ completed = 0
    /\ available_streams = <<>>
    /\ progress = <<>>
    /\ returned = NotReturned
    /\ console = <<>>
    /\ playlist = <<>>

InitV ==
    /\ v_pc = "call"
    /\ v_net \in Scripts
    /\ v_out = NoOutcome
    /\ ScanIdle

V_Call ==
    /\ v_pc = "call"
    /\ v_out' = validate_stream_strict(base_url, V_Addr, V_Port, v_net)
    /\ v_pc' = "returned"
    /\ UNCHANGED <<v_net, svars>>

NextV == V_Call

SpecV == InitV /\ [][NextV]_vars

(***************************************************************************)
(* scan_range: target enumeration.                                         *)
(***************************************************************************)
\* range(int(start_ip), int(end_ip) + 1)
RECURSIVE IpRange(_, _)
IpRange_ExclusiveEnd(start_ip, end_ip) ==
    IF IpLeq(end_ip, start_ip) THEN <<>>
    ELSE <<start_ip>> \o IpRange(IpSucc(start_ip), end_ip)

IpRange(start_ip, end_ip) ==
    IF IpLess(end_ip, start_ip) THEN <<>>
    ELSE IF start_ip = end_ip THEN <<start_ip>>
    ELSE <<start_ip>> \o IpRange(IpSucc(start_ip), end_ip)

\* for port in ports: targets.append((ip_addr, port))
TargetsOfAddr(ip_addr, ports) == [j \in 1..Len(ports) |-> <<ip_addr, ports[j]>>]

\* for ip_int in range(...): ip_addr = str(IPv4Address(ip_int)); ...
RECURSIVE EnumerateTargets(_, _)
EnumerateTargets_PortMajor(ip_ints, ports) ==
    IF ports = <<>> THEN <<>>
    ELSE [a \in 1..Len(ip_ints) |-> <<IPv4Str(ip_ints[a]), Head(ports)>>]
            \o EnumerateTargets(ip_ints, Tail(ports))

EnumerateTargets(ip_ints, ports) ==
    IF ip_ints = <<>> THEN <<>>
    ELSE TargetsOfAddr(IPv4Str(Head(ip_ints)), ports)
            \o EnumerateTargets(Tail(ip_ints), ports)

(***************************************************************************)
(* _sort_results: sorted(results, key=sort_key), a stable sort.            *)
(***************************************************************************)
\* an octet string ranked as text: "10" sorts before "9"
RECURSIVE TextRank(_, _)
TextRank(str, width) ==
    IF width = 0 THEN 0
    ELSE IF str = <<>> THEN 11 * TextRank(str, width - 1)
    ELSE (Head(str) + 1) * (IF width = 3 THEN 121 ELSE IF width = 2 THEN 11 ELSE 1)
            + TextRank(Tail(str), width - 1)

sort_key_Text(item) ==
    << TextRank(item.multicast_addr[1], 3), TextRank(item.multicast_addr[2], 3),
       TextRank(item.multicast_addr[3], 3), TextRank(item.multicast_addr[4], 3),
       item.port >>

sort_key(item) ==
    << StrToInt(item.multicast_addr[1]), StrToInt(item.multicast_addr[2]),
       StrToInt(item.multicast_addr[3]), StrToInt(item.multicast_addr[4]),
       item.port >>

\* tuple comparison k1 < k2
KeyLess(k1, k2) ==
    \E i \in 1..Len(k1) : k1[i] < k2[i] /\ \A j \in 1..(i - 1) : k1[j] = k2[j]

\* item placed after every element whose key is not greater (stability)
RECURSIVE InsertSorted(_, _)
InsertSorted(sorted, item) ==
    IF sorted = <<>> THEN <<item>>
    ELSE IF KeyLess(sort_key(item), sort_key(Head(sorted)))
         THEN <<item>> \o sorted
         ELSE <<Head(sorted)>> \o InsertSorted(Tail(sorted), item)

RECURSIVE SortFrom(_, _)
SortFrom(sorted, rest) ==
    IF rest = <<>> THEN sorted
    ELSE SortFrom(InsertSorted(sorted, Head(rest)), Tail(rest))

_sort_results_Unsorted(results) == results

_sort_results(results) == SortFrom(<<>>, results)

(***************************************************************************)
(* _print_sorted_results and save_results.                                 *)
(***************************************************************************)
\* '.'.join(ip_addr.split('.')[:3])
IpPrefix(ip_addr) == SubSeq(ip_addr, 1, 3)

\* the lines printed for results[i..], the previous group being prev
RECURSIVE PrintFrom(_, _, _)
PrintFrom(results, i, prev) ==
    IF i > Len(results) THEN <<>>
    ELSE LET r == results[i]
             ip_prefix == IpPrefix(r.multicast_addr)
             group == IF <<ip_prefix>> # prev
                      THEN (IF prev # <<>> THEN <<[kind |-> "blank"]>> ELSE <<>>)
                            \o <<[kind |-> "group", prefix |-> ip_prefix]>>
                      ELSE <<>>
         IN  group
             \o <<[kind |-> "entry", i |-> i, multicast_addr |-> r.multicast_addr,
                   port |-> r.port, url |-> r.url,
                   data_received |-> r.data_received]>>
             \o PrintFrom(results, i + 1, <<ip_prefix>>)

\* current_ip_prefix is None: <<>>; otherwise <<prefix>>
_print_sorted_results(results) == PrintFrom(results, 1, <<>>)

FileHeader(results) ==
    << [kind |-> "comment", text |-> "scan results - strict validation"],
       [kind |-> "comment", text |-> "scan time"],
       [kind |-> "comment", text |-> <<"base url", base_url>>],
       [kind |-> "comment", text |-> <<"found", Len(results)>>],
       [kind |-> "comment", text |-> "sorted by IP address and port"],
       [kind |-> "comment", text |-> "##################################################"],
       [kind |-> "extm3u"] >>

\* the lines written for results[i..]; index is the running counter
RECURSIVE WriteFrom(_, _, _, _)
WriteFrom(results, i, index, prev) ==
    IF i > Len(results) THEN <<>>
    ELSE LET r == results[i]
             ip_prefix == IpPrefix(r.multicast_addr)
             sep == IF <<ip_prefix>> # prev /\ prev # <<>>
                    THEN <<[kind |-> "blank"]>> ELSE <<>>
         IN  sep
             \o << [kind |-> "extinf", tvg_id |-> index, tvg_name |-> index,
                    group_title |-> "all", name |-> index],
                   [kind |-> "url", url |-> r.url],
                   [kind |-> "blank"] >>
             \o WriteFrom(results, i + 1, index + 1, <<ip_prefix>>)

\* save_results(results, filename), the file being `file` before the call.
\* open_ok = FALSE is open() raising: the except clause catches the error
\* and prints it, so nothing is raised to the caller either way.
\*   file    : the file after the call
\*   printed : the line printed on the console
\*   raised  : whether an exception leaves save_results
save_results_ZeroBased(results, open_ok, file) ==
    IF open_ok
    THEN [file |-> FileHeader(results) \o WriteFrom(results, 1, 0, <<>>),
          printed |-> <<[kind |-> "saved"]>>, raised |-> FALSE]
    ELSE [file |-> file,
          printed |-> <<[kind |-> "save_error", text |-> "cannot open file"]>>,
          raised |-> FALSE]

save_results(results, open_ok, file) ==
    IF open_ok
    THEN [file |-> FileHeader(results) \o WriteFrom(results, 1, 1, <<>>),
          printed |-> <<[kind |-> "saved"]>>, raised |-> FALSE]
    ELSE [file |-> file,
          printed |-> <<[kind |-> "save_error", text |-> "cannot open file"]>>,
          raised |-> FALSE]

(***************************************************************************)
(* Spec: one run of main -> scan_range -> _scan_targets.                   *)
(***************************************************************************)
StartAddrs == {<<239, 0, 0, 9>>, <<239, 0, 0, 255>>}
LowAddr    == <<239, 0, 0, 1>>
PortLists  == {<<5140>>, <<5140, 5141>>, <<5141, 5140>>, <<5140, 5140>>}

RECURSIVE IpAdd(_, _)
IpAdd(x, k) == IF k = 0 THEN x ELSE IpAdd(IpSucc(x), k - 1)

\* the end addresses tried with a start address; LowAddr is below every start
EndAddrs(start) == {IpAdd(start, k) : k \in 0..MaxSpan} \cup {LowAddr}

\* what the gateway does for the calls of a scan: a call that raises, one
\* that returns a failing status, and two that return different available
\* results (SpecV covers the other paths of the call)
ScanScripts ==
    { Net(TRUE, "response", HTTP_OK, <<>>, "eof"),
      Net(FALSE, "refused", HTTP_OK, <<>>, "eof"),
      Net(FALSE, "response", HTTP_OK, <<CHUNK_SIZE>>, "eof"),
      Net(FALSE, "response", HTTP_OK, <<60, 60>>, "eof") }

NotSubmitted == [state |-> "NONE", yielded |-> FALSE, raised |-> FALSE,
                 result |-> NoResult]

N == Len(targets)
Running == {i \in 1..N : futures[i].state = "RUNNING"}
Pending == {i \in 1..N : futures[i].state = "PENDING"}

Init ==
    /\ pc = "main"
    /\ \E start \in StartAddrs, ports \in PortLists, w \in 1..MaxWorkers :
         \E end \in EndAddrs(start) :
            /\ Len(IpRange(start, end)) * Len(ports) <= MaxTargets
            /\ args = [start |-> start, end |-> end, ports |-> ports,
                       max_workers |-> w]
    /\ targets = <<>>
    /\ submitted = 0
    /\ futures = <<>>
    /\ runs = <<>>
    /\ completed = 0
    /\ available_streams = <<>>
    /\ progress = <<>>
    /\ returned = NotReturned
    /\ console = <<>>
    /\ playlist = <<>>
    /\ v_pc = "idle"
    /\ v_net = Net(FALSE, "response", HTTP_OK, <<>>, "eof")
    /\ v_out = NoOutcome

\* scan_range up to the call of _scan_targets, and _scan_targets up to the
\* first executor.submit.
scan_range ==
    /\ pc = "main"
    /\ LET ts == EnumerateTargets(IpRange(args.start, args.end), args.ports) IN
         /\ targets' = ts
         /\ futures' = [i \in 1..Len(ts) |-> NotSubmitted]
         /\ runs' = [i \in 1..Len(ts) |-> 0]
         /\ pc' = IF Len(ts) = 0 THEN "as_completed" ELSE "submit"
    /\ UNCHANGED <<args, submitted, completed, available_streams, progress,
                   returned, console, playlist, vvars>>

\* executor.submit(self.validate_stream_strict, addr, port) for the next
\* target of the list; after the last one the main thread enters the
\* as_completed loop.
Submit ==
    /\ pc = "submit"
    /\ submitted < N
    /\ submitted' = submitted + 1
    /\ futures' = [futures EXCEPT ![submitted + 1].state = "PENDING"]
    /\ pc' = IF submitted + 1 = N THEN "as_completed" ELSE "submit"
    /\ UNCHANGED <<args, targets, runs, completed, available_streams, progress,
                   returned, console, playlist, vvars>>

\* A pool thread takes the oldest queued work item; the pool has at most
\* max_workers threads, each running one item at a time.
WorkerStart_Unbounded(i) ==
    /\ i \in Pending
    /\ \A j \in Pending : i <= j
    /\ futures' = [futures EXCEPT ![i].state = "RUNNING"]
    /\ runs' = [runs EXCEPT ![i] = @ + 1]
    /\ UNCHANGED <<pc, args, targets, submitted, completed, available_streams,
                   progress, returned, console, playlist, vvars>>

WorkerStart(i) ==
    /\ i \in Pending
    /\ \A j \in Pending : i <= j
    /\ Cardinality(Running) < args.max_workers
    /\ futures' = [futures EXCEPT ![i].state = "RUNNING"]
    /\ runs' = [runs EXCEPT ![i] = @ + 1]
    /\ UNCHANGED <<pc, args, targets, submitted, completed, available_streams,
                   progress, returned, console, playlist, vvars>>

\* The call of validate_stream_strict ends: the future holds its result or
\* the exception that left it.
WorkerFinish(i) ==
    /\ i \in Running
    /\ \E net \in ScanScripts :
         LET out == validate_stream_strict(base_url, targets[i][1], targets[i][2], net)
         IN  futures' = [futures EXCEPT ![i] =
                [state |-> "FINISHED", yielded |-> FALSE,
                 raised |-> out.raised, result |-> out.result]]
    /\ UNCHANGED <<pc, args, targets, submitted, runs, completed,
                   available_streams, progress, returned, console, playlist, vvars>>

\* One iteration of "for future in as_completed(future_to_target)".
Consume_CountOnSuccess(i) ==
    /\ pc = "as_completed"
    /\ i \in 1..N
    /\ futures[i].state = "FINISHED"
    /\ ~futures[i].yielded
    /\ futures' = [futures EXCEPT ![i].yielded = TRUE]
    /\ LET c == IF futures[i].raised THEN completed ELSE completed + 1
           avail == IF ~futures[i].raised /\ futures[i].result.status = "available"
                    THEN Append(available_streams, futures[i].result)
                    ELSE available_streams
       IN  /\ completed' = c
           /\ available_streams' = avail
           /\ progress' = Append(progress, <<c, N, Len(avail)>>)
    /\ UNCHANGED <<pc, args, targets, submitted, runs, returned, console,
                   playlist, vvars>>

Consume_StaleProgress(i) ==
    /\ pc = "as_completed"
    /\ i \in 1..N
    /\ futures[i].state = "FINISHED"
    /\ ~futures[i].yielded
    /\ futures' = [futures EXCEPT ![i].yielded = TRUE]
    /\ LET c == completed + 1
           avail == IF ~futures[i].raised /\ futures[i].result.status = "available"
                    THEN Append(available_streams, futures[i].result)
                    ELSE available_streams
       IN  /\ completed' = c
           /\ available_streams' = avail
           /\ progress' = Append(progress, <<completed, N, Len(available_streams)>>)
    /\ UNCHANGED <<pc, args, targets, submitted, runs, returned, console,
                   playlist, vvars>>

Consume(i) ==
    /\ pc = "as_completed"
    /\ i \in 1..N
    /\ futures[i].state = "FINISHED"
    /\ ~futures[i].yielded
    /\ futures' = [futures EXCEPT ![i].yielded = TRUE]
    /\ LET c == completed + 1
           avail == IF ~futures[i].raised /\ futures[i].result.status = "available"
                    THEN Append(available_streams, futures[i].result)
                    ELSE available_streams
       IN  /\ completed' = c
           /\ available_streams' = avail
           /\ progress' = Append(progress, <<c, N, Len(avail)>>)
    /\ UNCHANGED <<pc, args, targets, submitted, runs, returned, console,
                   playlist, vvars>>

\* The loop is exhausted: the with block ends (every future is done), the
\* results are sorted, reported, saved and returned to main.
Report ==
    /\ pc = "as_completed"
    /\ \A i \in 1..N : futures[i].yielded
    /\ LET sorted == _sort_results(available_streams)
           report == IF sorted # <<>> THEN _print_sorted_results(sorted) ELSE <<>>
       IN
         /\ available_streams' = sorted
         /\ \E open_ok \in BOOLEAN :
              LET saved == IF sorted # <<>>
                           THEN save_results(sorted, open_ok, playlist)
                           ELSE [file |-> playlist, printed |-> <<>>, raised |-> FALSE]
              IN  /\ playlist' = saved.file
                  /\ console' = report \o saved.printed
                  /\ returned' = IF saved.raised THEN returned
                                 ELSE [bound |-> TRUE, value |-> sorted]
                  /\ pc' = IF saved.raised THEN "failed" ELSE "done"
    /\ UNCHANGED <<args, targets, submitted, futures, runs, completed, progress,
                   vvars>>

\* KeyboardInterrupt in the main thread while it submits or waits for
\* completions: the exception leaves the with block, whose exit waits for
\* the work already submitted (executor.shutdown(wait=True)).
Interrupt ==
    /\ pc \in {"submit", "as_completed"}
    /\ pc' = "shutdown"
    /\ UNCHANGED <<args, targets, submitted, futures, runs, completed,
                   available_streams, progress, returned, console, playlist, vvars>>

\* The pool has drained; the exception reaches main's
\* "except KeyboardInterrupt", which prints a notice.
InterruptExit ==
    /\ pc = "shutdown"
    /\ Pending = {} /\ Running = {}
    /\ pc' = "interrupted"
    /\ UNCHANGED <<args, targets, submitted, futures, runs, completed,
                   available_streams, progress, returned, console, playlist, vvars>>

Next ==
    \/ scan_range
    \/ Submit
    \/ \E i \in 1..N : WorkerStart(i)
    \/ \E i \in 1..N : WorkerFinish(i)
    \/ \E i \in 1..N : Consume(i)
    \/ Report
    \/ Interrupt
    \/ InterruptExit

Spec == Init /\ [][Next]_vars

(***************************************************************************)
(* Properties of validate_stream_strict (checked under SpecV).             *)
(***************************************************************************)
Min(a, b) == IF a < b THEN a ELSE b

IsNonEmpty(c) == c > 0
NonEmptyChunks == SelectSeq(v_net.chunks, IsNonEmpty)
\* the non-empty chunks the read budget of 3 chunks admits
BudgetChunks == SubSeq(NonEmptyChunks, 1, Min(MAX_CHUNK_COUNT, Len(NonEmptyChunks)))
\* the shortest prefix of the body whose bytes exceed the threshold
CrossingPrefixes ==
    {k \in 1..Len(v_net.chunks) : SumSeq(SubSeq(v_net.chunks, 1, k)) > DATA_THRESHOLD}
FirstCrossing == CHOOSE k \in CrossingPrefixes : \A j \in CrossingPrefixes : k <= j

V_Returned == v_pc = "returned"
V_Got200 ==
    /\ ~v_net.pre_raises
    /\ v_net.get = "response"
    /\ v_net.status_code = HTTP_OK

\* C5: HTTP 200 and at least 101 bytes delivered within the first 3
\* non-empty chunks: the call returns status 'available' and data_received is
\* the sum of the lengths of the chunks read up to the one that crossed the
\* threshold.
C5_AvailableOnData ==
    (V_Returned /\ V_Got200 /\ SumSeq(BudgetChunks) >= DATA_THRESHOLD + 1)
        => /\ ~v_out.raised
           /\ v_out.result.status = "available"
           /\ v_out.result.data_received
                = SumSeq(SubSeq(v_net.chunks, 1, FirstCrossing))

C5_Witness ==
    /\ V_Returned /\ V_Got200
    /\ SumSeq(BudgetChunks) = DATA_THRESHOLD + 1
    /\ Len(NonEmptyChunks) >= MAX_CHUNK_COUNT
    /\ v_out.result.status = "available"
    /\ v_out.result.chunks_received = MAX_CHUNK_COUNT

\* C6: HTTP 200 and at most 100 bytes (possibly none) read when the budget
\* is exhausted (3 chunks read, or the body ended): the call returns status
\* 'no_data' and the error text carries the number of bytes received.
BudgetExhaustedBelowThreshold ==
    /\ SumSeq(BudgetChunks) <= DATA_THRESHOLD
    /\ \/ Len(NonEmptyChunks) >= MAX_CHUNK_COUNT
       \/ v_net.end = "eof"

C7_InvalidOnNon200 ==
    (V_Returned /\ ~v_net.pre_raises /\ v_net.get = "response"
        /\ v_net.status_code # HTTP_OK)
        => /\ ~v_out.raised
           /\ v_out.result.status = "invalid"
           /\ v_out.result.error = <<"HTTP ", v_net.status_code>>
           /\ v_out.reads = 0

C7_Witness ==
    /\ V_Returned /\ v_net.get = "response" /\ v_net.status_code = 204
    /\ Len(v_net.chunks) > 0
    /\ v_out.result.status = "invalid"

\* C8 (as stated): every returned result has one of the six statuses
\* available, no_data, invalid, timeout, connection_refused, error.
C8_SixStatuses ==
    (V_Returned /\ ~v_out.raised)
        => v_out.result.status \in
             {"available", "no_data", "invalid", "timeout",
              "connection_refused", "error"}

\* C8 (amended): every returned result has one of the seven statuses
\* available, no_data, invalid, timeout, connection_refused, read_timeout,
\* error.
C8_SevenStatuses ==
    (V_Returned /\ ~v_out.raised)
        => v_out.result.status \in
             {"available", "no_data", "invalid", "timeout",
              "connection_refused", "read_timeout", "error"}

C8_Witness ==
    /\ V_Returned /\ ~v_out.raised
    /\ v_net.get = "read_timeout"
    /\ v_out.result.status = "read_timeout"

\* C9: a returned result has an 'error' field if and only if its status is
\* not 'available'.
C9_ErrorIffNotAvailable ==
    (V_Returned /\ ~v_out.raised)
        => (("error" \in DOMAIN v_out.result) <=> (v_out.result.status # "available"))

C9_Witness ==
    /\ V_Returned /\ ~v_out.raised
    /\ v_out.result.status = "no_data"
    /\ "error" \in DOMAIN v_out.result

\* C10: a failure of the request or of the body read never leaves the call
\* as an exception: the call returns a result, and its status is a failing
\* one.
RequestFailed == ~v_net.pre_raises /\ v_net.get # "response"
BodyReadFailed ==
    /\ V_Got200
    /\ v_net.end # "eof"
    /\ Len(NonEmptyChunks) < MAX_CHUNK_COUNT
    /\ SumSeq(NonEmptyChunks) <= DATA_THRESHOLD

C10_FailuresBecomeResults ==
    (V_Returned /\ ~v_net.pre_raises)
        => /\ ~v_out.raised
           /\ v_out.exc = NoExc
           /\ (RequestFailed \/ BodyReadFailed)
                => v_out.result.status \in
                     {"timeout", "connection_refused", "read_timeout", "error"}

C10_Witness ==
    /\ V_Returned /\ BodyReadFailed
    /\ v_net.end = "protocol"
    /\ SumSeq(NonEmptyChunks) > 0
    /\ ~v_out.raised
    /\ v_out.result.status = "error"

(***************************************************************************)
(* Properties of the scan (checked under Spec).                            *)
(***************************************************************************)
Finished == {i \in 1..N : futures[i].state = "FINISHED"}
Returned(i) == futures[i].state = "FINISHED" /\ ~futures[i].raised
AvailableTargets == {i \in 1..N : Returned(i) /\ futures[i].result.status = "available"}
TargetsDistinct == \A i, j \in 1..N : targets[i] = targets[j] => i = j

\* the address of target i as a number, read from the scanned range
IpOfTarget(i) == IpRange(args.start, args.end)[((i - 1) \div Len(args.ports)) + 1]
\* target i is before target j in (octet0, octet1, octet2, octet3, port) order
TargetBefore(i, j) ==
    \/ IpLess(IpOfTarget(i), IpOfTarget(j))
    \/ IpOfTarget(i) = IpOfTarget(j) /\ targets[i][2] < targets[j][2]

\* C1: no target is validated more than once, and a scan that has finished
\* has validated each of its N targets exactly once, holds N outcomes
\* (returned or raised), and has counted completed = N.
C1_EveryTargetOnce ==
    /\ \A i \in 1..N : runs[i] <= 1
    /\ (pc = "done")
         => /\ N = Len(EnumerateTargets(IpRange(args.start, args.end), args.ports))
            /\ \A i \in 1..N : runs[i] = 1 /\ futures[i].state = "FINISHED"
            /\ Cardinality(Finished) = N
            /\ completed = N

C1_Witness ==
    /\ pc = "done"
    /\ N = MaxTargets
    /\ args.max_workers < N
    /\ completed = N
    /\ \E i, j, k \in 1..N :
         /\ futures[i].raised
         /\ Returned(j) /\ futures[j].result.status = "connection_refused"
         /\ Returned(k) /\ futures[k].result.status = "available"
         /\ i < k /\ j < k

\* C2: at most max_workers calls of validate_stream_strict are in flight.
C2_InFlightBounded == Cardinality(Running) <= args.max_workers

C2_Witness ==
    /\ args.max_workers = MaxWorkers
    /\ Cardinality(Running) = args.max_workers
    /\ Pending # {}

\* C3: for distinct targets, the sequence a finished scan returns holds
\* exactly the results whose status is 'available', each once, in strictly
\* ascending (octet0, octet1, octet2, octet3, port) order, whatever the
\* order in which the validations completed.
C3_ReportSortedAvailable ==
    (pc = "done" /\ TargetsDistinct)
        => /\ returned.bound
           /\ Len(returned.value) = Cardinality(AvailableTargets)
           /\ \A i \in AvailableTargets :
                \E p \in 1..Len(returned.value) : returned.value[p] = futures[i].result
           /\ \A p \in 1..Len(returned.value) :
                \E i \in AvailableTargets :
                   /\ returned.value[p] = futures[i].result
                   /\ \A q \in (p + 1)..Len(returned.value) :
                        \E j \in AvailableTargets :
                           /\ returned.value[q] = futures[j].result
                           /\ TargetBefore(i, j)

\* two available results were collected in descending order, next to a
\* result that is not available
C3_Witness ==
    /\ pc = "done" /\ TargetsDistinct
    /\ Len(returned.value) = 2
    /\ Cardinality(Finished \ AvailableTargets) = 1
    /\ progress[1][3] = 1
    /\ \E i, j \in AvailableTargets :
         /\ i < j
         /\ futures[i].result.data_received < futures[j].result.data_received
         /\ returned.value[1] = futures[i].result
         /\ args.start = <<239, 0, 0, 9>>

\* C4 (as stated): after an interrupt of the as_completed loop the caller
\* holds the results collected so far, sorted, and they were printed and
\* written to the playlist.
C4_PartialReportOnInterrupt ==
    (pc = "interrupted" /\ available_streams # <<>>)
        => /\ returned.bound
           /\ returned.value = _sort_results(available_streams)
           /\ console # <<>>

(***************************************************************************)
(* SpecE: scan_range's enumeration and the submission loop of              *)
(* _scan_targets alone (no pool thread runs), over a wider set of ranges.  *)
(***************************************************************************)
E_StartAddrs == StartAddrs \cup {<<239, 0, 0, 1>>, <<239, 0, 255, 255>>}

InitE ==
    /\ pc = "main"
    /\ \E start \in E_StartAddrs, ports \in PortLists :
         \E end \in EndAddrs(start) :
            args = [start |-> start, end |-> end, ports |-> ports,
                    max_workers |-> 1]
    /\ targets = <<>>
    /\ submitted = 0
    /\ futures = <<>>
    /\ runs = <<>>
    /\ completed = 0
    /\ available_streams = <<>>
    /\ progress = <<>>
    /\ returned = NotReturned
    /\ console = <<>>
    /\ playlist = <<>>
    /\ v_pc = "idle"
    /\ v_net = Net(FALSE, "response", HTTP_OK, <<>>, "eof")
    /\ v_out = NoOutcome

NextE == scan_range \/ Submit

SpecE == InitE /\ [][NextE]_vars

(***************************************************************************)
(* Properties of the enumeration (checked under SpecE).                    *)
(***************************************************************************)
Enumerated == pc # "main"

\* int(end) - int(start), computed on the octets (the ranges of the model
\* are far below the 32-bit limit of the checker's integers)
IpDelta(x, y) ==
    (y[1] - x[1]) * 16777216 + (y[2] - x[2]) * 65536 + (y[3] - x[3]) * 256
        + (y[4] - x[4])

PortsDistinct == \A i, j \in 1..Len(args.ports) : args.ports[i] = args.ports[j] => i = j

\* C11 (as stated): for start <= end, exactly
\* (int(end) - int(start) + 1) * |ports| targets are produced and no
\* (address, port) target appears twice, for every non-empty port list.
C11_CountAndNoDuplicates ==
    (Enumerated /\ IpLeq(args.start, args.end))
        => /\ Len(targets) = (IpDelta(args.start, args.end) + 1) * Len(args.ports)
           /\ TargetsDistinct

\* C11 (amended): the count holds for every non-empty port list; no target
\* appears twice when the port list holds no port twice.
C11_CountAndNoDuplicatesForDistinctPorts ==
    (Enumerated /\ IpLeq(args.start, args.end))
        => /\ Len(targets) = (IpDelta(args.start, args.end) + 1) * Len(args.ports)
           /\ PortsDistinct => TargetsDistinct

C11_Witness ==
    /\ Enumerated
    /\ args.start = <<239, 0, 255, 255>>
    /\ IpDelta(args.start, args.end) = MaxSpan
    /\ args.ports = <<5141, 5140>>
    /\ Len(targets) = (MaxSpan + 1) * 2
    /\ TargetsDistinct

\* the address number k of the range, by arithmetic on the low 24 bits
Low24(x) == x[2] * 65536 + x[3] * 256 + x[4]
NthIp(k) ==
    LET v == Low24(args.start) + (k - 1)
    IN  <<args.start[1] + (v \div 16777216), (v \div 65536) % 256,
          (v \div 256) % 256, v % 256>>

\* C20: the targets are listed address-major, port-minor: addresses
\* ascending from start to end, within an address the ports in the order
\* given; and they are submitted to the pool in that order.
C20_AddressMajorOrder ==
    (Enumerated /\ IpLeq(args.start, args.end))
        => LET P == Len(args.ports) IN
           /\ \A a \in 1..(IpDelta(args.start, args.end) + 1) : \A j \in 1..P :
                /\ (a - 1) * P + j \in 1..Len(targets)
                /\ targets[(a - 1) * P + j] = <<IPv4Str(NthIp(a)), args.ports[j]>>
           /\ \A k \in 1..Len(targets) :
                (futures[k].state # "NONE") <=> (k <= submitted)

\* 239.0.0.1 .. 239.0.0.3 with ports [5140, 5141], all six submitted
C20_Witness ==
    /\ args.start = <<239, 0, 0, 1>> /\ args.end = <<239, 0, 0, 3>>
    /\ args.ports = <<5140, 5141>>
    /\ targets = << <<<< <<2, 3, 9>>, <<0>>, <<0>>, <<1>> >>, 5140>>,
                    <<<< <<2, 3, 9>>, <<0>>, <<0>>, <<1>> >>, 5141>>,
                    <<<< <<2, 3, 9>>, <<0>>, <<0>>, <<2>> >>, 5140>>,
                    <<<< <<2, 3, 9>>, <<0>>, <<0>>, <<2>> >>, 5141>>,
                    <<<< <<2, 3, 9>>, <<0>>, <<0>>, <<3>> >>, 5140>>,
                    <<<< <<2, 3, 9>>, <<0>>, <<0>>, <<3>> >>, 5141>> >>
    /\ submitted = 6
    /\ \A k \in 1..6 : futures[k].state = "PENDING"

(***************************************************************************)
(* Further properties of the scan (checked under Spec).                    *)
(***************************************************************************)
\* C12 (as stated): with start > end the scan fails: no target is probed
\* and the scan does not complete normally.
C12_ReversedRangeFails ==
    IpLess(args.end, args.start)
        => /\ \A i \in 1..N : runs[i] = 0
           /\ pc # "done"
           /\ ~returned.bound

IsExtinf(line) == line.kind = "extinf"
IsUrl(line) == line.kind = "url"
ExtinfLines == SelectSeq(playlist, IsExtinf)
UrlLines == SelectSeq(playlist, IsUrl)

\* C14: the written playlist holds one descriptor/URL pair per result, in
\* the order of the results; the i-th descriptor carries the identifier i
\* and is followed by the URL of the i-th result.
C14_OnePairPerResultNumbered ==
    (pc = "done" /\ playlist # <<>>)
        => /\ Len(ExtinfLines) = Len(returned.value)
           /\ Len(UrlLines) = Len(returned.value)
           /\ \A i \in 1..Len(returned.value) :
                /\ ExtinfLines[i].tvg_id = i
                /\ ExtinfLines[i].tvg_name = i
                /\ ExtinfLines[i].name = i
                /\ UrlLines[i].url = returned.value[i].url
                /\ \E p \in 1..(Len(playlist) - 1) :
                     playlist[p] = ExtinfLines[i] /\ playlist[p + 1] = UrlLines[i]

\* two results in different address groups, next to a target that is not
\* available
C14_Witness ==
    /\ pc = "done" /\ playlist # <<>>
    /\ N = 3
    /\ Len(returned.value) = 2
    /\ IpPrefix(returned.value[1].multicast_addr) # IpPrefix(returned.value[2].multicast_addr)
    /\ Len(ExtinfLines) = 2

SaveFailed == \E k \in 1..Len(console) : console[k].kind = "save_error"

\* C15 (as stated): when the playlist cannot be opened for writing, the
\* error leaves save_results and the scan: the scan does not return normally.
C15_OpenFailurePropagates ==
    SaveFailed => (pc = "failed" /\ ~returned.bound)

Yielded == {i \in 1..N : futures[i].yielded}

\* C19: every completion consumed adds one to completed, appends its result
\* exactly when it is available, and prints one progress line; line k reads
\* (k, total, found) with 0 <= found <= k <= total, found growing by at most
\* one per line and equal to the number of available results consumed.
C19_ProgressCounts ==
    Enumerated
        => /\ completed = Cardinality(Yielded)
           /\ Len(progress) = completed
           /\ Len(available_streams) = Cardinality(Yielded \cap AvailableTargets)
           /\ \A k \in 1..Len(progress) :
                /\ progress[k][1] = k
                /\ progress[k][2] = N
                /\ 0 <= progress[k][3] /\ progress[k][3] <= k /\ k <= N
                /\ progress[k][3] - (IF k = 1 THEN 0 ELSE progress[k - 1][3]) \in {0, 1}
           /\ Len(progress) > 0 => progress[Len(progress)][3] = Len(available_streams)
           /\ pc = "done" => Len(progress) = N

C19_Witness ==
    /\ pc = "done" /\ N = 3
    /\ progress = << <<1, 3, 0>>, <<2, 3, 1>>, <<3, 3, 1>> >>
    /\ \E i \in 1..N : futures[i].raised

(***************************************************************************)
(* Further properties of validate_stream_strict (checked under SpecV).     *)
(***************************************************************************)
\* C16 (as stated): whenever a response object was obtained, it has been
\* closed when the call returns.
C16_ResponseAlwaysClosed ==
    (V_Returned /\ v_out.got_response) => v_out.closed

\* a stop condition holds once the first k items of the body are read
StopHolds(k) ==
    LET pre == SubSeq(v_net.chunks, 1, k) IN
    \/ SumSeq(pre) > DATA_THRESHOLD
    \/ Len(SelectSeq(pre, IsNonEmpty)) >= MAX_CHUNK_COUNT
    \/ SumSeq(pre) >= MAX_DATA_SIZE
StopPoints == {k \in 1..Len(v_net.chunks) : StopHolds(k)}
\* items requested from the body: up to the first stop point, or past the
\* last chunk (the request that meets the end of the body or fails)
ExpectedReads ==
    IF StopPoints = {} THEN Len(v_net.chunks) + 1
    ELSE CHOOSE k \in StopPoints : \A j \in StopPoints : k <= j

\* C17: on a 200 response the loop requests no item after the first one at
\* which a stop condition holds (more than 100 bytes, 3 chunks, or at least
\* 32768 bytes); chunks_received <= 3 and data_received <= 32768.
C17_ReadLoopStops ==
    (V_Returned /\ V_Got200)
        => /\ v_out.reads = ExpectedReads
           /\ Len(SelectSeq(SubSeq(v_net.chunks, 1, Min(v_out.reads, Len(v_net.chunks))),
                            IsNonEmpty)) <= MAX_CHUNK_COUNT
           /\ ("chunks_received" \in DOMAIN v_out.result)
                => v_out.result.chunks_received <= MAX_CHUNK_COUNT
           /\ ("data_received" \in DOMAIN v_out.result)
                => v_out.result.data_received <= MAX_DATA_SIZE

\* the chunk budget ends the loop while more data was on offer
C17_Witness ==
    /\ V_Returned /\ V_Got200
    /\ Len(NonEmptyChunks) > MAX_CHUNK_COUNT
    /\ SumSeq(BudgetChunks) <= DATA_THRESHOLD
    /\ v_out.reads < Len(v_net.chunks)
    /\ v_out.result.status = "no_data"
    /\ v_out.stop = "chunks"

\* C18 (as stated): connect timeout -> 'timeout'; refused -> 
\* 'connection_refused'; read timeout after the connection, also while the
\* body is iterated -> 'read_timeout'; any other failure -> 'error' with the
\* failure's text; each failure ends the call with one result.
C18_FailureClassMapping ==
    (V_Returned /\ ~v_net.pre_raises /\ (RequestFailed \/ BodyReadFailed))
        => /\ ~v_out.raised
           /\ v_net.get = "connect_timeout" => v_out.result.status = "timeout"
           /\ v_net.get = "refused" => v_out.result.status = "connection_refused"
           /\ v_net.get = "read_timeout" => v_out.result.status = "read_timeout"
           /\ (BodyReadFailed /\ v_net.end = "read_timeout")
                => v_out.result.status = "read_timeout"
           /\ v_net.get = "other"
                => /\ v_out.result.status = "error"
                   /\ v_out.result.error = "request failed"
           /\ (BodyReadFailed /\ v_net.end = "protocol")
                => /\ v_out.result.status = "error"
                   /\ v_out.result.error = "connection broken"

(***************************************************************************)
(* SpecS: one call of _sort_results on a list of available results.        *)
(***************************************************************************)
SortIps   == {<<239, 0, 0, 9>>, <<239, 0, 0, 10>>, <<239, 0, 1, 2>>}
SortPorts == {5140, 5141}
SortNets  == { Net(FALSE, "response", HTTP_OK, <<CHUNK_SIZE>>, "eof"),
               Net(FALSE, "response", HTTP_OK, <<60, 60>>, "eof") }

\* the available results of the targets above
SortItems ==
    { validate_stream_strict(base_url, IPv4Str(ip), port, net).result :
        ip \in SortIps, port \in SortPorts, net \in SortNets }

InitS ==
    /\ pc = "sort_call"
    /\ available_streams \in BoundedSeq(SortItems, MaxSortLen)
    /\ args = [start |-> <<0, 0, 0, 0>>, end |-> <<0, 0, 0, 0>>, ports |-> <<>>,
               max_workers |-> 1]
    /\ targets = <<>>
    /\ submitted = 0
    /\ futures = <<>>
    /\ runs = <<>>
    /\ completed = 0
    /\ progress = <<>>
    /\ returned = NotReturned
    /\ console = <<>>
    /\ playlist = <<>>
    /\ v_pc = "idle"
    /\ v_net = Net(FALSE, "response", HTTP_OK, <<>>, "eof")
    /\ v_out = NoOutcome

S_Sort ==
    /\ pc = "sort_call"
    /\ returned' = [bound |-> TRUE, value |-> _sort_results(available_streams)]
    /\ pc' = "sorted"
    /\ UNCHANGED <<args, targets, submitted, futures, runs, completed,
                   available_streams, progress, console, playlist, vvars>>

NextS == S_Sort

SpecS == InitS /\ [][NextS]_vars

(***************************************************************************)
(* Properties of _sort_results (checked under SpecS).                      *)
(***************************************************************************)
Occurrences(x, seq) == Cardinality({p \in 1..Len(seq) : seq[p] = x})

\* the address of a result as a number, looked up among the addresses sorted
ItemIp(item) == CHOOSE ip \in SortIps : IPv4Str(ip) = item.multicast_addr
NumericBefore(x, y) ==
    \/ IpLess(ItemIp(x), ItemIp(y))
    \/ ItemIp(x) = ItemIp(y) /\ x.port < y.port
SameTarget(x, y) == x.multicast_addr = y.multicast_addr /\ x.port = y.port

\* C13: _sort_results is idempotent, returns a permutation of its input,
\* and its key orders two results of different (address, port) strictly,
\* by the numeric value of the octets and then the port.
C13_SortLaws ==
    (pc = "sorted")
        => LET in == available_streams
               out == returned.value
           IN  /\ _sort_results(out) = out
               /\ Len(out) = Len(in)
               /\ \A x \in SortItems : Occurrences(x, out) = Occurrences(x, in)
               /\ \A p, q \in 1..Len(in) :
                    ~SameTarget(in[p], in[q])
                        => /\ KeyLess(sort_key(in[p]), sort_key(in[q]))
                                <=> NumericBefore(in[p], in[q])
                           /\ KeyLess(sort_key(in[p]), sort_key(in[q]))
                                <=> ~KeyLess(sort_key(in[q]), sort_key(in[p]))
               /\ \A p, q \in 1..Len(out) :
                    (p < q /\ ~SameTarget(out[p], out[q]))
                        => NumericBefore(out[p], out[q])

\* 239.0.0.10 given before 239.0.0.9 comes out after it
C13_Witness ==
    /\ pc = "sorted"
    /\ Len(available_streams) = 3
    /\ available_streams[1].multicast_addr = IPv4Str(<<239, 0, 0, 10>>)
    /\ available_streams[2].multicast_addr = IPv4Str(<<239, 0, 1, 2>>)
    /\ available_streams[3].multicast_addr = IPv4Str(<<239, 0, 0, 9>>)
    /\ returned.value[1].multicast_addr = IPv4Str(<<239, 0, 0, 9>>)
    /\ returned.value[2].multicast_addr = IPv4Str(<<239, 0, 0, 10>>)
    /\ returned.value # available_streams

(***************************************************************************)
(* Bounds on what the read loop collects (checked under SpecV).            *)
(***************************************************************************)
ChunksWithinSize == \A k \in 1..Len(v_net.chunks) : v_net.chunks[k] <= CHUNK_SIZE

DigitChars == <<"0", "1", "2", "3", "4", "5", "6", "7", "8", "9">>
DigitsText(digits) == [k \in 1..Len(digits) |-> DigitChars[digits[k] + 1]]

\* '.'.join of the four octet strings
AddrText(addr) ==
    DigitsText(addr[1]) \o <<".">> \o DigitsText(addr[2]) \o <<".">>
        \o DigitsText(addr[3]) \o <<".">> \o DigitsText(addr[4])

\* f"{self.base_url}{multicast_addr}:{port}"
UrlText(url) == url[1] \o AddrText(url[2]) \o <<":">> \o DigitsText(IntToStr(url[3]))

\* the text of a comment line after its '#', kept as one symbol: the parser
\* tests such a line only by its first characters
CommentText == "comment text"
\* the two characters of the group title
GroupTitleText == <<"group", "title">>

\* f"#EXTINF:-1 tvg-id=\"{index}\" tvg-name=\"{index}\" group-title=\"..\",{index}"
ExtinfText(line) ==
    <<"#", "E", "X", "T", "I", "N", "F", ":", "-", "1", " ">>
        \o <<"t", "v", "g", "-", "i", "d", "=", "\"">>
        \o DigitsText(IntToStr(line.tvg_id)) \o <<"\"", " ">>
        \o <<"t", "v", "g", "-", "n", "a", "m", "e", "=", "\"">>
        \o DigitsText(IntToStr(line.tvg_name)) \o <<"\"", " ">>
        \o <<"g", "r", "o", "u", "p", "-", "t", "i", "t", "l", "e", "=", "\"">>
        \o GroupTitleText \o <<"\"", ",">>
        \o DigitsText(IntToStr(line.name))

LineText(line) ==
    CASE line.kind = "comment" -> <<"#", CommentText>>
      [] line.kind = "extm3u"  -> <<"#", "E", "X", "T", "M", "3", "U">>
      [] line.kind = "blank"   -> <<>>
      [] line.kind = "extinf"  -> ExtinfText(line)
      [] line.kind = "url"     -> UrlText(line.url)

\* f.readlines() on the file written by save_results
FileText(file) == [k \in 1..Len(file) |-> LineText(file[k]) \o <<"\n">>]

(***************************************************************************)
(* M3UComparator.parse_m3u_file                                            *)
(***************************************************************************)
Whitespace == {" ", "\t", "\n", "\r"}

RECURSIVE LStrip(_)
LStrip(s) == IF s # <<>> /\ Head(s) \in Whitespace THEN LStrip(Tail(s)) ELSE s
RECURSIVE RStrip(_)
RStrip(s) ==
    IF s # <<>> /\ s[Len(s)] \in Whitespace THEN RStrip(SubSeq(s, 1, Len(s) - 1)) ELSE s
\* line.strip()
Strip(s) == RStrip(LStrip(s))

\* line.startswith(prefix)
StartsWith(s, prefix) == Len(s) >= Len(prefix) /\ SubSeq(s, 1, Len(prefix)) = prefix

EXTINF_PREFIX == <<"#", "E", "X", "T", "I", "N", "F", ":">>

\* [^\s]+ up to the end of the line, from position k
NonSpaceToEnd(line, k) ==
    /\ k <= Len(line)
    /\ \A j \in k..Len(line) : line[j] \notin Whitespace

\* re.compile(r'^(http?://[^\s]+)$').match(line): 'htt', an optional 'p',
\* then '://' and one or more non-blank characters
url_pattern(line) ==
    \/ StartsWith(line, <<"h", "t", "t", ":", "/", "/">>) /\ NonSpaceToEnd(line, 7)
    \/ StartsWith(line, <<"h", "t", "t", "p", ":", "/", "/">>) /\ NonSpaceToEnd(line, 8)

\* current_channel = {}
NoChannel == << >>

\* the loop over enumerate(lines, 1) from line line_num on
RECURSIVE ParseFrom(_, _, _, _, _)
ParseFrom(lines, line_num, channels, current_channel, file_path) ==
    IF line_num > Len(lines) THEN channels
    ELSE LET line == Strip(lines[line_num]) IN
         IF line = <<>>
         THEN ParseFrom(lines, line_num + 1, channels, current_channel, file_path)
         ELSE IF StartsWith(line, EXTINF_PREFIX)
         THEN ParseFrom(lines, line_num + 1, channels,
                        [extinf |-> line, line_number |-> line_num, file |-> file_path],
                        file_path)
         ELSE IF url_pattern(line)
         THEN IF DOMAIN current_channel # {}
              THEN ParseFrom(lines, line_num + 1,
                             Append(channels, current_channel @@ [url |-> line]),
                             NoChannel, file_path)
              ELSE ParseFrom(lines, line_num + 1,
                             Append(channels,
                                    [url |-> line, extinf |-> <<>>,
                                     line_number |-> line_num, file |-> file_path]),
                             current_channel, file_path)
         ELSE IF StartsWith(line, <<"#">>)
         THEN ParseFrom(lines, line_num + 1, channels,
                        IF "extinf" \notin DOMAIN current_channel
                        THEN [metadata |-> line] ELSE current_channel,
                        file_path)
         ELSE ParseFrom(lines, line_num + 1, channels, current_channel, file_path)

\* parse_m3u_file(file_path); exists = FALSE is open() raising
\* FileNotFoundError
parse_m3u_file(exists, file, file_path) ==
    IF ~exists THEN [urls |-> {}, channels |-> <<>>]
    ELSE LET channels == ParseFrom(FileText(file), 1, <<>>, NoChannel, file_path)
         IN  [urls |-> {channels[i].url : i \in 1..Len(channels)},
              channels |-> channels]

(***************************************************************************)
(* SpecP: save_results writes a playlist, parse_m3u_file reads it back.    *)
(***************************************************************************)
\* --base-url values, as text
BaseUrls ==
    { <<"h", "t", "t", "p", ":", "/", "/", "g", "w", "/", "r", "t", "p", "/">>,
      <<"h", "t", "t", "p", "s", ":", "/", "/", "g", "w", "/", "r", "t", "p", "/">> }
PlaylistIps == {<<239, 0, 0, 9>>, <<239, 0, 0, 10>>, <<239, 0, 1, 2>>}
PlaylistPort == 5140
playlist_path == "iptvscanner.m3u"

\* the available results of one scanner
PlaylistItems(b) ==
    { validate_stream_strict(b, IPv4Str(ip), PlaylistPort,
                             Net(FALSE, "response", HTTP_OK, <<CHUNK_SIZE>>, "eof")).result :
        ip \in PlaylistIps }

InitP ==
    /\ pc = "save_call"
    /\ \E b \in BaseUrls :
         available_streams \in BoundedSeq(PlaylistItems(b), MaxPlaylistLen)
    /\ args = [start |-> <<0, 0, 0, 0>>, end |-> <<0, 0, 0, 0>>, ports |-> <<>>,
               max_workers |-> 1]
    /\ targets = <<>>
    /\ submitted = 0
    /\ futures = <<>>
    /\ runs = <<>>
    /\ completed = 0
    /\ progress = <<>>
    /\ returned = NotReturned
    /\ console = <<>>
    /\ playlist = <<>>
    /\ v_pc = "idle"
    /\ v_net = Net(FALSE, "response", HTTP_OK, <<>>, "eof")
    /\ v_out = NoOutcome

\* save_results(results, filename); no file exists before the call
P_Save ==
    /\ pc = "save_call"
    /\ \E open_ok \in BOOLEAN :
         LET saved == save_results(available_streams, open_ok, playlist)
         IN  /\ playlist' = saved.file
             /\ console' = saved.printed
    /\ pc' = "saved"
    /\ UNCHANGED <<args, targets, submitted, futures, runs, completed,
                   available_streams, progress, returned, vvars>>

\* parse_m3u_file(filename)
P_Parse ==
    /\ pc = "saved"
    /\ returned' = [bound |-> TRUE,
                    value |-> parse_m3u_file(playlist # <<>>, playlist, playlist_path)]
    /\ pc' = "parsed"
    /\ UNCHANGED <<args, targets, submitted, futures, runs, completed,
                   available_streams, progress, console, playlist, vvars>>

NextP == P_Save \/ P_Parse

SpecP == InitP /\ [][NextP]_vars

(***************************************************************************)
(* Properties of the playlist round trip (checked under SpecP).            *)
(***************************************************************************)
Parsed == pc = "parsed" /\ playlist # <<>>
ResultUrlTexts == {UrlText(available_streams[i].url) : i \in 1..Len(available_streams)}

\* C22 (as stated): for results whose base URL is http:// or https://,
\* parsing the file written by save_results yields one channel per written
\* entry, in order, and a URL set equal to the set of the results' URLs;
\* header comment lines and blank lines give no channel.
C22_PlaylistRoundTrip ==
    Parsed
        => LET channels == returned.value.channels IN
           /\ Len(channels) = Len(available_streams)
           /\ \A i \in 1..Len(channels) :
                channels[i].url = UrlText(available_streams[i].url)
           /\ returned.value.urls = ResultUrlTexts

====
